---- MODULE Spec2Model ----
(***************************************************************************)
(* Model of the RAG query pipeline of fastapi-server/api/query.py:        *)
(* the endpoint query_knowledge and the coroutine query_llm, one request   *)
(* from arrival to its HTTP outcome.                                       *)
(*                                                                         *)
(* Text is a sequence of tokens.  The two markers "Reasoning:" and         *)
(* "Answer:" are one token each, "x" is any text without marker and        *)
(* without whitespace, " " is a whitespace character.  No concatenation of *)
(* "x" and " " forms a marker, so Python's substring test, str.split and   *)
(* str.strip act on these sequences as they act on the characters.         *)
(***************************************************************************)
EXTENDS Integers, Sequences, FiniteSets, TLC

VARIABLES pc, query, calls, relevant_chunks, similarities, sorted_chunks,
          source_urls, context_parts, llm_call, llm_result, status, detail,
          response

vars == <<pc, query, calls, relevant_chunks, similarities, sorted_chunks,
          source_urls, context_parts, llm_call, llm_result, status, detail,
          response>>

(***************************************************************************)
(* Bounds of the model.                                                    *)
(***************************************************************************)
MaxLen == 5
MaxChunks == 3
MaxScore == 2

(***************************************************************************)
(* Python values.                                                          *)
(***************************************************************************)
None == "<None>"
Missing == "<missing key>"

\* Python truthiness of an Optional[str]: None and "" are falsy.
Falsy(v) == v = None \/ v = ""

RM == "Reasoning:"
AM == "Answer:"
Alphabet == {RM, AM, "x", " "}
Whitespace == {" "}

(***************************************************************************)
(* Module constants of query.py.                                           *)
(***************************************************************************)
LM_STUDIO_URL == "http://localhost:1234/v1"

GROQ_MODELS ==
  [m \in {"llama3-8b-8192", "llama3-70b-8192", "gemma-7b-it", "mixtral-8x7b-32768"} |->
     CASE m = "llama3-8b-8192"     -> [name |-> "Llama-3 8B",   max_tokens |-> 8192]
       [] m = "llama3-70b-8192"    -> [name |-> "Llama-3 70B",  max_tokens |-> 8192]
       [] m = "gemma-7b-it"        -> [name |-> "Gemma 7B",     max_tokens |-> 8192]
       [] m = "mixtral-8x7b-32768" -> [name |-> "Mixtral 8x7B", max_tokens |-> 32768]]

DEFAULT_GROQ_MODEL == "llama3-8b-8192"

LOCAL_MODEL == "deepseek-r1-distill-qwen-7b"

NoInfoAnswer == <<"I don't have enough information to answer that question.">>
NoContextReasoning == <<"No reasoning available due to lack of context.">>
UnableReasoning == <<"Unable to extract structured reasoning.">>

(***************************************************************************)
(* Inputs of one request.                                                  *)
(***************************************************************************)
QueryRequest ==
  [question : {"What is X?"},
   llm_choice : {"local", "groq", "openai"},
   model : {None, ""} \cup DOMAIN GROQ_MODELS \cup {"unknown-model"},
   api_key : {None, "", "gsk_key"}]

Urls == {Missing, "", "u1", "u2"}
Scores == 1..MaxScore

\* What query_vector_db returns: a list of chunks and the list of their
\* similarities, of the same length.  A chunk's text is its position in the
\* returned list, so that two chunks are never confused.
RetrievalResults ==
  UNION {[1..n -> Urls \X Scores] : n \in 0..MaxChunks}

ChunksOf(r) == [i \in 1..Len(r) |-> [text |-> i, metadata |-> [source_url |-> r[i][1]]]]
SimsOf(r) == [i \in 1..Len(r) |-> r[i][2]]

Texts == UNION {[1..n -> Alphabet] : n \in 0..MaxLen}

\* What the completion call does: returns a message with a text content,
\* returns a message whose content is None, or raises.
ProviderError == "Connection error."
LLMResults ==
  {[kind |-> "text", content |-> t] : t \in Texts}
    \cup {[kind |-> "none", content |-> <<>>], [kind |-> "raise", content |-> <<>>]}

EmbeddingOutcomes == {"ok", "ValueError", "Exception"}
EmbeddingError == "embedding failed"

(***************************************************************************)
(* Python string operations on token sequences.                            *)
(***************************************************************************)
\* sub in s
Contains(s, tok) == \E i \in 1..Len(s) : s[i] = tok

FirstIndex(s, tok) == CHOOSE i \in 1..Len(s) : s[i] = tok /\ \A j \in 1..(i-1) : s[j] # tok

\* s.split(sep): the pieces between the occurrences of sep, all of them.
RECURSIVE Split(_, _)
Split(s, sep) ==
  IF ~Contains(s, sep) THEN <<s>>
  ELSE LET i == FirstIndex(s, sep)
       IN <<SubSeq(s, 1, i-1)>> \o Split(SubSeq(s, i+1, Len(s)), sep)

RECURSIVE LStrip(_)
LStrip(s) == IF s # <<>> /\ Head(s) \in Whitespace THEN LStrip(Tail(s)) ELSE s

RECURSIVE RStrip(_)
RStrip(s) ==
  IF s # <<>> /\ s[Len(s)] \in Whitespace THEN RStrip(SubSeq(s, 1, Len(s)-1)) ELSE s

\* s.strip()
Strip(s) == RStrip(LStrip(s))

(***************************************************************************)
(* get_openai_client: a client handle, or a ValueError.                    *)
(***************************************************************************)
get_openai_client(llm_choice, api_key) ==
  IF llm_choice = "local"
  THEN [raised |-> FALSE, base_url |-> LM_STUDIO_URL, error |-> None]
  ELSE IF llm_choice = "groq"
  THEN IF Falsy(api_key)
       THEN [raised |-> TRUE, base_url |-> None,
             error |-> "A valid Groq API key is required to use Groq models"]
       ELSE [raised |-> FALSE, base_url |-> "https://api.groq.com/openai/v1", error |-> None]
  ELSE [raised |-> TRUE, base_url |-> None, error |-> "Unsupported LLM choice"]

(***************************************************************************)
(* get_model_for_provider                                                  *)
(***************************************************************************)
get_model_for_provider_AnyGiven(llm_choice, model_id) ==
  IF llm_choice = "local" THEN LOCAL_MODEL
  ELSE IF llm_choice = "groq"
  THEN IF ~Falsy(model_id) THEN model_id ELSE DEFAULT_GROQ_MODEL
  ELSE LOCAL_MODEL

get_model_for_provider(llm_choice, model_id) ==
  IF llm_choice = "local" THEN LOCAL_MODEL
  ELSE IF llm_choice = "groq"
  THEN IF ~Falsy(model_id) /\ model_id \in DOMAIN GROQ_MODELS
       THEN model_id
       ELSE DEFAULT_GROQ_MODEL
  ELSE LOCAL_MODEL

Min(a, b) == IF a < b THEN a ELSE b

\* The token budget sent with the completion call.
max_tokens_for(llm_choice, model_id) ==
  IF llm_choice = "groq" /\ model_id \in DOMAIN GROQ_MODELS
  THEN Min(1500, GROQ_MODELS[model_id].max_tokens \div 4)
  ELSE 800

\* The label of the response of a completed LLM call.
model_used_for(llm_choice, model_id) ==
  IF llm_choice = "groq" /\ model_id \in DOMAIN GROQ_MODELS
  THEN GROQ_MODELS[model_id].name
  ELSE "Local LLM (LM-Studio)"

\* GROQ_MODELS.get(model, {}).get("name", model)
catalog_name(model) ==
  IF model \in DOMAIN GROQ_MODELS THEN GROQ_MODELS[model].name ELSE model

\* The label of the response when nothing was retrieved.
model_info(llm_choice, model) ==
  IF llm_choice = "groq" /\ ~Falsy(model) THEN catalog_name(model) ELSE "Local LLM"

(***************************************************************************)
(* Ranking and context assembly.                                           *)
(***************************************************************************)
\* zip(relevant_chunks, similarities)
Zip(a, b) == [i \in 1..Min(Len(a), Len(b)) |-> <<a[i], b[i]>>]

\* sorted(pairs, key=lambda x: x[1], reverse=True): a stable sort, so pairs
\* of equal similarity keep their order.  One pair is placed after every
\* pair whose similarity is not smaller.
RECURSIVE InsertUnstable(_, _)
InsertUnstable(done, e) ==
  IF done = <<>> THEN <<e>>
  ELSE IF Head(done)[2] > e[2]
       THEN <<Head(done)>> \o InsertUnstable(Tail(done), e)
       ELSE <<e>> \o done

RECURSIVE Insert(_, _)
Insert(done, e) ==
  IF done = <<>> THEN <<e>>
  ELSE IF Head(done)[2] >= e[2]
       THEN <<Head(done)>> \o Insert(Tail(done), e)
       ELSE <<e>> \o done

RECURSIVE sorted(_)
sorted(pairs) ==
  IF pairs = <<>> THEN <<>>
  ELSE Insert(sorted(SubSeq(pairs, 1, Len(pairs)-1)), pairs[Len(pairs)])

\* dict.get(key, default) on the chunk's metadata
metadata_get(chunk, default) ==
  IF chunk.metadata.source_url = Missing THEN default ELSE chunk.metadata.source_url

InSeq(x, s) == \E i \in 1..Len(s) : s[i] = x

\* The loop that collects the source URLs of the ranked chunks.
RECURSIVE extract_source_urls_NoDedup(_, _)
extract_source_urls_NoDedup(ranked, acc) ==
  IF ranked = <<>> THEN acc
  ELSE LET source_url == metadata_get(Head(ranked)[1], "")
       IN extract_source_urls_NoDedup(Tail(ranked),
            IF source_url # "" THEN Append(acc, source_url) ELSE acc)

RECURSIVE extract_source_urls(_, _)
extract_source_urls(ranked, acc) ==
  IF ranked = <<>> THEN acc
  ELSE LET source_url == metadata_get(Head(ranked)[1], "")
       IN extract_source_urls(Tail(ranked),
            IF source_url # "" /\ ~InSeq(source_url, acc)
            THEN Append(acc, source_url) ELSE acc)

\* The loop that builds one labelled block per ranked chunk.
build_context_parts(ranked) ==
  [i \in 1..Len(ranked) |->
     [source |-> i,
      title |-> "Untitled",
      source_url |-> metadata_get(ranked[i][1], "Unknown source"),
      text |-> ranked[i][1].text]]

(***************************************************************************)
(* Parsing of the completion text into (answer, reasoning).                *)
(***************************************************************************)
parse_response(full_response) ==
  IF Contains(full_response, RM) /\ Contains(full_response, AM)
  THEN LET parts == Split(full_response, AM)
       IN IF Len(parts) > 1
          THEN LET reasoning_parts == Split(parts[1], RM)
               IN [answer |-> Strip(parts[2]),
                   reasoning |-> IF Len(reasoning_parts) > 1
                                 THEN Strip(reasoning_parts[2])
                                 ELSE <<>>]
          ELSE [answer |-> full_response, reasoning |-> <<>>]
  ELSE [answer |-> full_response, reasoning |-> <<>>]

\* "if not relevant_chunks": the test for an empty retrieval result.
no_relevant_chunks_Never(chunks) == FALSE

no_relevant_chunks(chunks) == chunks = <<>>

\* The response returned when nothing was retrieved.
insufficient_context_response(q) ==
  [answer |-> NoInfoAnswer,
   reasoning |-> NoContextReasoning,
   source_urls |-> <<>>,
   model_used |-> model_info(q.llm_choice, q.model)]

\* The detail of the server error raised for a failed LLM call.
error_msg(q, e) ==
  IF q.llm_choice = "local"
  THEN [msg |-> "Local LLM query failed. Is LM-Studio running?",
        url |-> LM_STUDIO_URL, model_name |-> None, error |-> e]
  ELSE [msg |-> "Groq API query failed. Please check your API key and try again.",
        url |-> None,
        model_name |-> IF Falsy(q.model) THEN "default" ELSE catalog_name(q.model),
        error |-> e]

validation_detail(text) == [msg |-> text, url |-> None, model_name |-> None, error |-> None]

(***************************************************************************)
(* The part of the input space the model explores.  A request, a retrieval *)
(* result and an LLM result are drawn from the full bounded sets, but at   *)
(* most one of the three leaves its small set of typical values in a run.  *)
(***************************************************************************)
TypicalRequests ==
  {[question |-> "What is X?", llm_choice |-> "local", model |-> None, api_key |-> None],
   [question |-> "What is X?", llm_choice |-> "groq", model |-> "llama3-70b-8192",
    api_key |-> "gsk_key"]}

TypicalRetrievals == {<<>>, << <<"u1", 1>> >>, << <<"u1", 1>>, <<"u2", 2>> >>}

TypicalLLMResults ==
  {[kind |-> "text", content |-> <<RM, "x", AM, "x">>],
   [kind |-> "text", content |-> <<>>],
   [kind |-> "none", content |-> <<>>],
   [kind |-> "raise", content |-> <<>>]}

Retrieved == [i \in 1..Len(relevant_chunks) |->
                <<relevant_chunks[i].metadata.source_url, similarities[i]>>]

\* The retrieval results explored for the request in hand.
RetrievalsExplored ==
  IF query \in TypicalRequests THEN RetrievalResults ELSE TypicalRetrievals

\* The LLM results explored for the request and the retrieval in hand.
LLMResultsExplored ==
  IF query \in TypicalRequests /\ Retrieved \in TypicalRetrievals
  THEN LLMResults
  ELSE TypicalLLMResults

(***************************************************************************)
(* State of one request.                                                   *)
(***************************************************************************)
NoQuery == [question |-> None, llm_choice |-> None, model |-> None, api_key |-> None]
NoCall == [model |-> None, max_tokens |-> 0, context |-> <<>>, question |-> None]
NoResult == [kind |-> None, content |-> <<>>]
NoDetail == [msg |-> None, url |-> None, model_name |-> None, error |-> None]
NoResponse == [answer |-> <<None>>, reasoning |-> <<None>>, source_urls |-> <<>>,
               model_used |-> None]

Init ==
  /\ pc = "start"
  /\ query = NoQuery
  /\ calls = <<>>
  /\ relevant_chunks = <<>>
  /\ similarities = <<>>
  /\ sorted_chunks = <<>>
  /\ source_urls = <<>>
  /\ context_parts = <<>>
  /\ llm_call = NoCall
  /\ llm_result = NoResult
  /\ status = 0
  /\ detail = NoDetail
  /\ response = NoResponse

\* raise HTTPException(status_code, detail): the request is over.
Raise(code, d) ==
  /\ pc' = "done"
  /\ status' = code
  /\ detail' = d
  /\ response' = NoResponse

\* return response: the request is over.
Return(r) ==
  /\ pc' = "done"
  /\ status' = 200
  /\ detail' = NoDetail
  /\ response' = r

\* The check that query_knowledge makes before it calls query_llm.
api_key_missing_NoneOnly(q) == q.llm_choice = "groq" /\ q.api_key = None

api_key_missing(q) == q.llm_choice = "groq" /\ Falsy(q.api_key)

(***************************************************************************)
(* query_knowledge: the request arrives and is validated.                  *)
(***************************************************************************)
query_knowledge ==
  /\ pc = "start"
  /\ \E q \in QueryRequest :
       /\ query' = q
       /\ IF api_key_missing(q)
          THEN Raise(400, validation_detail("Groq API key is required when using Groq models"))
          ELSE /\ pc' = "embed"
               /\ UNCHANGED <<status, detail, response>>
  /\ UNCHANGED <<calls, relevant_chunks, similarities, sorted_chunks, source_urls,
                 context_parts, llm_call, llm_result>>

(***************************************************************************)
(* query_llm, first await: the embedding of the question.  An exception of *)
(* the embedding call leaves query_llm and is converted by query_knowledge. *)
(***************************************************************************)
create_embeddings ==
  /\ pc = "embed"
  /\ calls' = Append(calls, "create_embeddings")
  /\ \E outcome \in EmbeddingOutcomes :
       CASE outcome = "ok" ->
              /\ pc' = "retrieve"
              /\ UNCHANGED <<status, detail, response>>
         [] outcome = "ValueError" ->
              Raise(400, validation_detail(EmbeddingError))
         [] outcome = "Exception" ->
              Raise(500, [msg |-> "Internal server error", url |-> None,
                          model_name |-> None, error |-> EmbeddingError])
  /\ UNCHANGED <<query, relevant_chunks, similarities, sorted_chunks, source_urls,
                 context_parts, llm_call, llm_result>>

(***************************************************************************)
(* query_llm, second await: retrieval, then everything up to the           *)
(* completion call: the empty-result response, ranking, source URLs,       *)
(* context, client and model selection.                                    *)
(***************************************************************************)
query_vector_db ==
  /\ pc = "retrieve"
  /\ \E r \in RetrievalsExplored :
       /\ relevant_chunks' = ChunksOf(r)
       /\ similarities' = SimsOf(r)
       /\ IF no_relevant_chunks(ChunksOf(r))
          THEN /\ calls' = Append(calls, "query_vector_db")
               /\ Return(insufficient_context_response(query))
               /\ UNCHANGED <<sorted_chunks, source_urls, context_parts, llm_call>>
          ELSE LET ranked == sorted(Zip(ChunksOf(r), SimsOf(r)))
                   client == get_openai_client(query.llm_choice, query.api_key)
                   model_id == get_model_for_provider(query.llm_choice, query.model)
               IN /\ sorted_chunks' = ranked
                  /\ source_urls' = extract_source_urls(ranked, <<>>)
                  /\ context_parts' = build_context_parts(ranked)
                  /\ IF client.raised
                     THEN /\ calls' = Append(calls, "query_vector_db")
                          /\ Raise(400, validation_detail(client.error))
                          /\ UNCHANGED llm_call
                     ELSE /\ calls' = calls \o <<"query_vector_db", "OpenAI">>
                          /\ llm_call' =
                               [model |-> model_id,
                                max_tokens |-> max_tokens_for(query.llm_choice, model_id),
                                context |-> build_context_parts(ranked),
                                question |-> query.question]
                          /\ pc' = "llm"
                          /\ UNCHANGED <<status, detail, response>>
  /\ UNCHANGED <<query, llm_result>>

(***************************************************************************)
(* query_llm, the completion call and what follows it.                     *)
(*  - the call raises: the handler of the inner try reads full_response,   *)
(*    which was never assigned; the UnboundLocalError reaches the outer    *)
(*    "except Exception" and becomes the server error.                     *)
(*  - the content is None: the substring test raises TypeError, the inner  *)
(*    handler sets the fallback, and QueryResponse(answer=None) raises a   *)
(*    pydantic ValidationError, a ValueError, caught by "except ValueError".*)
(*  - the content is text: it is parsed and the response returned.         *)
(***************************************************************************)
UnboundLocalError ==
  "cannot access local variable 'full_response' where it is not associated with a value"

chat_completions_create ==
  /\ pc = "llm"
  /\ calls' = Append(calls, "chat.completions.create")
  /\ \E o \in LLMResultsExplored :
       /\ llm_result' = o
       /\ CASE o.kind = "raise" ->
                 Raise(500, error_msg(query, UnboundLocalError))
            [] o.kind = "none" ->
                 Raise(400, validation_detail("1 validation error for QueryResponse"))
            [] o.kind = "text" ->
                 LET parsed == parse_response(o.content)
                 IN Return([answer |-> parsed.answer,
                            reasoning |-> parsed.reasoning,
                            source_urls |-> source_urls,
                            model_used |-> model_used_for(query.llm_choice, llm_call.model)])
  /\ UNCHANGED <<query, relevant_chunks, similarities, sorted_chunks, source_urls,
                 context_parts, llm_call>>

Next ==
  \/ query_knowledge
  \/ create_embeddings
  \/ query_vector_db
  \/ chat_completions_create

Spec == Init /\ [][Next]_vars

(***************************************************************************)
(* Properties.                                                             *)
(***************************************************************************)
Called(name) == InSeq(name, calls)

\* The request passed validation: a recognised provider, and a credential
\* when the provider is the remote one.
ValidRequest(q) ==
  \/ q.llm_choice = "local"
  \/ q.llm_choice = "groq" /\ ~Falsy(q.api_key)

\* C1: a request with llm_choice = "groq" and an absent or empty api_key is
\* rejected with HTTP 400, and in no state of such a request has an
\* embedding, retrieval or LLM call been made.
C1_GroqWithoutKeyRejectedBeforeAnyCall ==
  (pc # "start" /\ query.llm_choice = "groq" /\ Falsy(query.api_key)) =>
    /\ pc = "done"
    /\ status = 400
    /\ detail.msg = "Groq API key is required when using Groq models"
    /\ calls = <<>>

C1_Witness ==
  /\ pc = "done"
  /\ query.llm_choice = "groq"
  /\ query.api_key = ""
  /\ status = 400
  /\ calls = <<>>

\* C2 (as claimed): a request with an unsupported provider ends in a client
\* validation failure (HTTP 400) without any embedding, retrieval or LLM call.
C2_UnsupportedProviderRejectedBeforeAnyCall ==
  (pc # "start" /\ query.llm_choice \notin {"local", "groq"}) =>
    /\ calls = <<>>
    /\ pc = "done" => status = 400

\* C3: a validated request whose retrieval returns no chunk ends with the
\* fixed successful response, and no LLM client is constructed or called.
C3_EmptyRetrievalGivesSentinel ==
  (pc = "done" /\ ValidRequest(query) /\ Called("query_vector_db")
     /\ relevant_chunks = <<>>) =>
    /\ status = 200
    /\ response.answer = <<"I don't have enough information to answer that question.">>
    /\ response.reasoning = <<"No reasoning available due to lack of context.">>
    /\ response.source_urls = <<>>
    /\ ~Called("OpenAI")
    /\ ~Called("chat.completions.create")
    /\ llm_call = NoCall

C3_Witness ==
  /\ pc = "done"
  /\ query.llm_choice = "groq"
  /\ query.api_key = "gsk_key"
  /\ Called("query_vector_db")
  /\ relevant_chunks = <<>>
  /\ status = 200

\* C4 (as claimed): the answer of every returned QueryResponse is a
\* non-empty string.
C4_AnswerNeverEmpty ==
  status = 200 => response.answer # <<>>

\* The rank of the i-th retrieved chunk: similarity descending, equal
\* similarities in the order of retrieval.
Rank(i) ==
  1 + Cardinality({j \in 1..Len(relevant_chunks) :
                     \/ similarities[j] > similarities[i]
                     \/ similarities[j] = similarities[i] /\ j < i})

UrlOf(i) == relevant_chunks[i].metadata.source_url

NonEmptyUrls == {UrlOf(i) : i \in 1..Len(relevant_chunks)} \ {Missing, ""}

FirstRank(u) ==
  CHOOSE k \in 1..Len(relevant_chunks) :
    /\ \E i \in 1..Len(relevant_chunks) : UrlOf(i) = u /\ Rank(i) = k
    /\ \A i \in 1..Len(relevant_chunks) : UrlOf(i) = u => Rank(i) >= k

UrlsOk(s) ==
  /\ \A a, b \in 1..Len(s) : a < b => s[a] # s[b]
  /\ \A a \in 1..Len(s) : s[a] # ""
  /\ {s[a] : a \in 1..Len(s)} = NonEmptyUrls
  /\ \A a, b \in 1..Len(s) : a < b => FirstRank(s[a]) < FirstRank(s[b])

\* C5: the source URLs of the response have no duplicate and no empty
\* string, are exactly the non-empty source URLs of the retrieved chunks,
\* and are ordered by first occurrence in the ranked chunk order.
C5_SourceUrlsDedupedInRankOrder ==
  /\ Called("query_vector_db") => UrlsOk(source_urls)
  /\ status = 200 => UrlsOk(response.source_urls)

C5_Witness ==
  /\ status = 200
  /\ Len(relevant_chunks) = 3
  /\ similarities = <<1, 2, 2>>
  /\ UrlOf(1) = "u1" /\ UrlOf(2) = "u2" /\ UrlOf(3) = "u1"
  /\ response.source_urls = <<"u2", "u1">>

\* C6: for the remote provider the model sent to the LLM is the requested
\* model when the catalog has it and "llama3-8b-8192" otherwise, and a
\* model the catalog lacks does not turn a completed call into an error.
C6_RemoteModelResolved ==
  (llm_call # NoCall /\ query.llm_choice = "groq") =>
    /\ ~Falsy(query.api_key)
    /\ llm_call.model = IF query.model \in DOMAIN GROQ_MODELS
                        THEN query.model
                        ELSE "llama3-8b-8192"
    /\ (pc = "done" /\ llm_result.kind = "text") => status = 200

C6_Witness ==
  /\ pc = "done"
  /\ query.llm_choice = "groq"
  /\ query.model = "unknown-model"
  /\ llm_call.model = "llama3-8b-8192"
  /\ llm_result.kind = "text"
  /\ status = 200

\* C7 (as claimed): when the completion call fails, the request ends in
\* HTTP 500 and the error detail carries the diagnostic text of the
\* provider's failure together with the provider-specific hint.
C7_ProviderFailureDetailKeepsDiagnostic ==
  (pc = "done" /\ llm_result.kind = "raise") =>
    /\ status = 500
    /\ detail.error = ProviderError
    /\ detail.msg = IF query.llm_choice = "local"
                    THEN "Local LLM query failed. Is LM-Studio running?"
                    ELSE "Groq API query failed. Please check your API key and try again."

\* Everything before / after the first "Answer:" of a text that has one.
BeforeAnswer(t) == SubSeq(t, 1, FirstIndex(t, AM) - 1)
AfterAnswer(t) == SubSeq(t, FirstIndex(t, AM) + 1, Len(t))

\* A text with its leading "Reasoning:" marker removed: what follows the
\* first "Reasoning:", anything in front of that marker going with it.
WithoutLeadingMarker(t) ==
  IF Contains(t, RM) THEN SubSeq(t, FirstIndex(t, RM) + 1, Len(t)) ELSE t

\* C8 (as claimed): when the LLM output has both markers, the answer is
\* everything after the first "Answer:", trimmed, and the reasoning is
\* everything before it with the leading "Reasoning:" stripped, trimmed.
\* Stated for the outputs that have a "Reasoning:" in front of the first
\* "Answer:", the order the prompt asks for.
C8_StructuredOutputSplitAtFirstAnswer ==
  (status = 200 /\ llm_result.kind = "text"
     /\ Contains(llm_result.content, AM)
     /\ Contains(BeforeAnswer(llm_result.content), RM)) =>
    /\ response.answer = Strip(AfterAnswer(llm_result.content))
    /\ response.reasoning = Strip(WithoutLeadingMarker(BeforeAnswer(llm_result.content)))

\* C9 (as claimed): when a marker is absent from the LLM output, the
\* reasoning is "Unable to extract structured reasoning." and the answer
\* is the raw output.
C9_UnstructuredOutputFallsBack ==
  (status = 200 /\ llm_result.kind = "text"
     /\ (~Contains(llm_result.content, RM) \/ ~Contains(llm_result.content, AM))) =>
    /\ response.reasoning = <<"Unable to extract structured reasoning.">>
    /\ response.answer = llm_result.content

\* C10: the context lists the retrieved chunks as Source 1, Source 2, ...
\* by similarity descending, chunks of equal similarity in the order of
\* retrieval, each retrieved chunk exactly once.
C10_ContextInStableRankOrder ==
  relevant_chunks # <<>> =>
    /\ Len(context_parts) = Len(relevant_chunks)
    /\ \A p \in 1..Len(context_parts) :
         /\ context_parts[p].source = p
         /\ context_parts[p].text \in 1..Len(relevant_chunks)
         /\ Rank(context_parts[p].text) = p
    /\ \A i \in 1..Len(relevant_chunks) :
         Cardinality({p \in 1..Len(context_parts) : context_parts[p].text = i}) = 1
    /\ llm_call # NoCall => llm_call.context = context_parts

C10_Witness ==
  /\ llm_call # NoCall
  /\ similarities = <<1, 2, 2>>
  /\ Len(llm_call.context) = 3
  /\ llm_call.context[1].text = 2
  /\ llm_call.context[2].text = 3
  /\ llm_call.context[3].text = 1

====
